---- MODULE Spec2Model ----
(***************************************************************************)
(* Model of tracing-examples/traceable/tracing_without_langchain.ipynb:    *)
(* the chat application (call_openai, argument_generator, critic, refiner, *)
(* argument_chain, argument_chain2, argument_chain_3), the @traceable      *)
(* decorator as the notebook describes and uses it, and the notebook's     *)
(* cells that call the chains and the tracing client.                      *)
(***************************************************************************)
EXTENDS Integers, Sequences, FiniteSets, TLC

VARIABLES
    cell,          \* index of the next notebook cell to execute
    pc,            \* position of the interpreter inside the running cell
    frames,        \* Python call stack of traced calls, innermost frame last
    stage,         \* argument_chain*: which statement of the body is next
    locals,        \* argument_chain*: argument, criticism, refined_argument
    retval,        \* value being returned by the innermost frame
    exc,           \* exception being raised, NoError when none
    inflight,      \* chat-completion requests sent and not yet answered
    runs,          \* run trees the decorator has created, in creation order
    nextId,        \* source of uuid4() values
    clock,         \* wall clock read by datetime.now()
    inputs,        \* query and additional_description the cells pass
    responses,     \* the fixed completions the chat-completion API returns
    invocations,   \* one record per chain call made by a cell
    nb,            \* notebook variables: result, run_id, requested_uuid, error
    feedbacks,     \* feedback stored by client.create_feedback
    shared,        \* run ids made public by client.share_run
    queue,         \* creations and patches of runs handed to the upload thread
    service        \* runs as the tracing service has received them

vars == <<cell, pc, frames, stage, locals, retval, exc, inflight, runs,
          nextId, clock, inputs, responses, invocations, nb, feedbacks, shared,
          queue, service>>

----------------------------------------------------------------------------
(* Bounds and input sets *)

MaxClock == 1

Queries == {"Whether sunshine is good for you.", "system"}

Descriptions == {"", "assistant"}

Completions == {"Sunshine is nice.", "user"}

ApiErrors == {"openai.error.APIError"}

TracingErrors == {"LangSmithError"}

NoError == "None"

None == 0

----------------------------------------------------------------------------
(* Values *)

Roles == {"system", "user", "assistant"}

Msg(role, content) == [role |-> role, content |-> content]

Chains == {"argument_chain", "argument_chain2", "argument_chain_3"}

(* A slip in the chain's body: refiner called before critic *)
Stages_RefinerFirst == <<"argument_generator", "refiner", "critic">>

Stages == <<"argument_generator", "critic", "refiner">>

StageFns == {Stages[i] : i \in 1..3}

EmptyMetadata == [k \in {} |-> 0]

NoExtra == [tags |-> {}, metadata |-> EmptyMetadata, run_id |-> None]

(* Python's str(), here of the value datetime.now() returns *)
Str(v) == ToString(v)

(* {**a, **b}: the keys of both, b's value where both have the key *)
Merge(a, b) ==
    [k \in (DOMAIN a) \cup (DOMAIN b) |-> IF k \in DOMAIN b THEN b[k] ELSE a[k]]

Last(s) == s[Len(s)]

Front(s) == SubSeq(s, 1, Len(s) - 1)

----------------------------------------------------------------------------
(* The message lists the three stages build. A content is the sequence of   *)
(* the parts its f-string concatenates.                                     *)

ArgumentGeneratorMessages(query, additional_description, now) ==
    << Msg("system", <<"You are a debater making an argument on a topic.",
                       additional_description,
                       " The current time is ", Str(now)>>),
       Msg("user", <<"The discussion topic is ", query>>) >>

(* A slip: the argument used as the role of the message that carries it *)
CriticMessages_RoleFromInput(argument) ==
    << Msg("system", <<"You are a critic.",
                       "\nWhat unresolved questions or criticism do you have after reading the following argument?",
                       "Provide a concise summary of your feedback.">>),
       Msg(argument, <<argument>>) >>

CriticMessages(argument) ==
    << Msg("system", <<"You are a critic.",
                       "\nWhat unresolved questions or criticism do you have after reading the following argument?",
                       "Provide a concise summary of your feedback.">>),
       Msg("system", <<argument>>) >>

RefinerMessages(query, additional_description, current_arg, criticism, now) ==
    << Msg("system", <<"You are a debater making an argument on a topic.",
                       additional_description,
                       " The current time is ", Str(now)>>),
       Msg("user", <<"The discussion topic is ", query>>),
       Msg("assistant", <<current_arg>>),
       Msg("user", <<criticism>>),
       Msg("system", <<"Please generate a new argument that incorporates the feedback from the user.">>) >>

(* The chat-completion request call_openai sends and the response object   *)
(* the API returns for a completion text.                                   *)
ChatRequest(msgs) ==
    [model |-> "gpt-3.5-turbo", messages |-> msgs, temperature |-> 0]

ChatResponse(text) ==
    [choices |-> << [message |-> Msg("assistant", text)] >>]

(* A slip in the return expression: the message's role, not its content *)
CallOpenaiResult_Role(response) == response.choices[1].message.role

(* call_openai's return expression: .choices[0].message.content *)
CallOpenaiResult(response) == response.choices[1].message.content

----------------------------------------------------------------------------
(* The @traceable decorator *)

(* The arguments each function's decorator was given; name defaults to the *)
(* function's name.                                                         *)
Traceable(f) ==
    CASE f = "call_openai" ->
           [run_type |-> "llm", name |-> f, tags |-> {}, metadata |-> EmptyMetadata]
      [] f = "argument_chain_3" ->
           [run_type |-> "chain", name |-> "My Argument Chain",
            tags |-> {"tutorial"},
            metadata |-> [k \in {"githash"} |-> "e38f04c83"]]
      [] OTHER ->
           [run_type |-> "chain", name |-> f, tags |-> {}, metadata |-> EmptyMetadata]

(* Tags, metadata and id of the run of one call: what the decorator was    *)
(* given and what the call's langsmith_extra adds.                          *)
(* A slip: tags given at call time replace the decorator's *)
RunTags_CallTimeReplaces(f, extra) ==
    IF extra.tags # {} THEN extra.tags ELSE Traceable(f).tags

RunTags(f, extra) == Traceable(f).tags \cup extra.tags

RunMetadata(f, extra) == Merge(Traceable(f).metadata, extra.metadata)

(* A slip: the requested id is ignored *)
RunId_Generated(extra, generated) == generated

RunId(extra, generated) ==
    IF extra.run_id # None THEN extra.run_id ELSE generated

(* A slip in the nesting: every run hung directly under the root run *)
ParentRun_Root(fs) == IF Len(fs) > 1 THEN fs[1].run ELSE None

(* The run the decorator opens for the innermost frame: a child of the run *)
(* of the enclosing traced call, a root when there is none.                 *)
ParentRun(fs) == IF Len(fs) > 1 THEN fs[Len(fs) - 1].run ELSE None

NewRun(frame, parent, generated) ==
    [id            |-> RunId(frame.extra, generated),
     name          |-> Traceable(frame.fn).name,
     run_type      |-> Traceable(frame.fn).run_type,
     parent_run_id |-> IF parent = None THEN None ELSE runs[parent].id,
     tags          |-> RunTags(frame.fn, frame.extra),
     metadata      |-> RunMetadata(frame.fn, frame.extra),
     inputs        |-> frame.args,
     outputs       |-> <<>>,
     error         |-> NoError,
     ended         |-> 0]

(* A slip: the error is not written to the run *)
EndRun_DropsError(r, outputs, error) ==
    [r EXCEPT !.outputs = outputs, !.ended = r.ended + 1]

(* The decorator closing a run with the function's outcome *)
EndRun(r, outputs, error) ==
    [r EXCEPT !.outputs = outputs, !.error = error, !.ended = r.ended + 1]

(* The decorator hands a run's creation ("post") or its outcome ("patch")  *)
(* to the background thread and goes on without waiting for the upload.     *)
Submit(q, op, run) == Append(q, [op |-> op, run |-> run])

(* A slip in the injection: the run created last, not the function's own *)
InjectedRunTree_Latest(fs) == runs[Len(runs)]

(* The run tree the decorator injects as the run_tree keyword argument *)
InjectedRunTree(fs) == runs[Last(fs).run]

----------------------------------------------------------------------------
(* The notebook *)

Unbound == "<unbound>"

(* The code cells that call the application or the tracing client, in the  *)
(* order the notebook runs them.                                            *)
Cells ==
    << [kind |-> "call", fn |-> "argument_chain", arg |-> "", score |-> ""],
       [kind |-> "call", fn |-> "argument_chain2", arg |-> "", score |-> ""],
       [kind |-> "create_feedback", fn |-> "", arg |-> "run_id", score |-> "0.5"],
       [kind |-> "share_run", fn |-> "", arg |-> "run_id", score |-> ""],
       [kind |-> "call", fn |-> "argument_chain_3", arg |-> "", score |-> ""],
       [kind |-> "create_feedback", fn |-> "", arg |-> "requested_uuid", score |-> "1"] >>

(* langsmith_extra of the cell's call: only the argument_chain_3 cell      *)
(* passes one, with the uuid the cell has just drawn.                       *)
LangsmithExtra(fn, requested_uuid) ==
    IF fn = "argument_chain_3"
    THEN [tags |-> {"another-tag"},
          metadata |-> [k \in {"another-key"} |-> 1],
          run_id |-> requested_uuid]
    ELSE NoExtra

Frame(fn, args, extra) == [fn |-> fn, args |-> args, extra |-> extra, run |-> None]

NewInvocation(fn) ==
    [fn |-> fn, root |-> None, calls |-> <<>>, times |-> <<>>, completions |-> <<>>,
     status |-> "running", result |-> <<>>, raised |-> NoError, error |-> NoError]

Cur == Len(invocations)

Init ==
    /\ cell = 1
    /\ pc = "next_cell"
    /\ frames = <<>>
    /\ stage = 0
    /\ locals = [argument |-> Unbound, criticism |-> Unbound,
                 refined_argument |-> Unbound]
    /\ retval = <<>>
    /\ exc = NoError
    /\ inflight = {}
    /\ runs = <<>>
    /\ nextId = 1
    /\ clock = 0
    /\ inputs \in [query : Queries, additional_description : Descriptions]
    /\ responses \in [1..3 -> Completions]
    /\ invocations = <<>>
    /\ nb = [result |-> <<>>, run_id |-> None, requested_uuid |-> None,
             error |-> NoError]
    /\ feedbacks = {}
    /\ shared = {}
    /\ queue = <<>>
    /\ service = <<>>

(* A cell calls one of the chains. The argument_chain_3 cell first draws   *)
(* requested_uuid = uuid4().                                                *)
CallChain ==
    /\ pc = "next_cell"
    /\ cell <= Len(Cells)
    /\ Cells[cell].kind = "call"
    /\ LET fn == Cells[cell].fn
           draws == fn = "argument_chain_3"
           uuid == IF draws THEN nextId ELSE nb.requested_uuid
       IN /\ nb' = [nb EXCEPT !.requested_uuid = uuid]
          /\ nextId' = IF draws THEN nextId + 1 ELSE nextId
          /\ frames' = << Frame(fn, <<inputs.query, inputs.additional_description>>,
                                LangsmithExtra(fn, uuid)) >>
          /\ invocations' = Append(invocations, NewInvocation(fn))
    /\ pc' = "enter"
    /\ stage' = 1
    /\ locals' = [argument |-> Unbound, criticism |-> Unbound,
                  refined_argument |-> Unbound]
    /\ retval' = <<>>
    /\ UNCHANGED <<queue, service, cell, exc, inflight, runs, clock, inputs, responses,
                   feedbacks, shared>>

(* A slip: the run is created on the service before the call goes on, so  *)
(* the call waits until the uploads before it are done.                     *)
SetupRun_WaitsForUpload ==
    /\ pc = "enter"
    /\ queue = <<>>
    /\ LET run == NewRun(Last(frames), ParentRun(frames), nextId)
           idx == Len(runs) + 1
       IN /\ runs' = Append(runs, run)
          /\ queue' = Submit(queue, "post", run)
          /\ nextId' = IF run.id = nextId THEN nextId + 1 ELSE nextId
          /\ frames' = [frames EXCEPT ![Len(frames)].run = idx]
          /\ invocations' = IF Len(frames) = 1
                            THEN [invocations EXCEPT ![Cur].root = idx]
                            ELSE invocations
    /\ pc' = "body"
    /\ UNCHANGED <<service, cell, stage, locals, retval, exc, inflight, clock, inputs,
                   responses, nb, feedbacks, shared>>

(* The decorator of the function being entered opens its run. *)
SetupRun ==
    /\ pc = "enter"
    /\ LET run == NewRun(Last(frames), ParentRun(frames), nextId)
           idx == Len(runs) + 1
       IN /\ runs' = Append(runs, run)
          /\ queue' = Submit(queue, "post", run)
          /\ nextId' = IF run.id = nextId THEN nextId + 1 ELSE nextId
          /\ frames' = [frames EXCEPT ![Len(frames)].run = idx]
          /\ invocations' = IF Len(frames) = 1
                            THEN [invocations EXCEPT ![Cur].root = idx]
                            ELSE invocations
    /\ pc' = "body"
    /\ UNCHANGED <<service, cell, stage, locals, retval, exc, inflight, clock, inputs,
                   responses, nb, feedbacks, shared>>

(* The tracing client fails while the decorator sets the run up: the error *)
(* is raised in the call being entered, which has no run yet.               *)
SetupRunFails ==
    /\ pc = "enter"
    /\ \E e \in TracingErrors :
          /\ exc' = e
          /\ invocations' = [invocations EXCEPT ![Cur].raised = e]
    /\ pc' = "raising"
    /\ UNCHANGED <<queue, service, cell, frames, stage, locals, retval, inflight, runs, nextId,
                   clock, inputs, responses, nb, feedbacks, shared>>

(* The arguments the chain's body passes to its next stage *)
StageArgs(fn, query, additional_description, l) ==
    CASE fn = "argument_generator" -> <<query, additional_description>>
      [] fn = "critic" -> <<l.argument>>
      [] fn = "refiner" -> <<query, additional_description, l.argument, l.criticism>>

(* argument_chain*: the body calls its next stage. *)
ChainCallsStage ==
    /\ pc = "body"
    /\ Last(frames).fn \in Chains
    /\ stage \in 1..3
    /\ LET a == Last(frames).args
       IN frames' = Append(frames,
                       Frame(Stages[stage],
                             StageArgs(Stages[stage], a[1], a[2], locals), NoExtra))
    /\ pc' = "enter"
    /\ UNCHANGED <<queue, service, cell, stage, locals, retval, exc, inflight, runs, nextId,
                   clock, inputs, responses, invocations, nb, feedbacks, shared>>

(* The message list a stage builds from its arguments *)
StageMessages(fn, a, now) ==
    CASE fn = "argument_generator" -> ArgumentGeneratorMessages(a[1], a[2], now)
      [] fn = "critic" -> CriticMessages(a[1])
      [] fn = "refiner" -> RefinerMessages(a[1], a[2], a[3], a[4], now)

ReadsClock(fn) == fn \in {"argument_generator", "refiner"}

(* A stage builds its message list, reading datetime.now() where the       *)
(* prompt holds the time, and calls call_openai with it.                    *)
StageCallsOpenai ==
    /\ pc = "body"
    /\ Last(frames).fn \in StageFns
    /\ LET fn == Last(frames).fn
       IN \E now \in {t \in {clock, clock + 1} : t <= MaxClock} :
             /\ clock' = IF ReadsClock(fn) THEN now ELSE clock
             /\ frames' = Append(frames,
                    Frame("call_openai",
                          <<StageMessages(fn, Last(frames).args, clock')>>, NoExtra))
             /\ invocations' =
                   IF ReadsClock(fn)
                   THEN [invocations EXCEPT ![Cur].times = Append(@, clock')]
                   ELSE invocations
    /\ pc' = "enter"
    /\ UNCHANGED <<queue, service, cell, stage, locals, retval, exc, inflight, runs, nextId,
                   inputs, responses, nb, feedbacks, shared>>

(* call_openai sends its request to the chat-completion API. *)
OpenaiCreate ==
    /\ pc = "body"
    /\ Last(frames).fn = "call_openai"
    /\ LET req == ChatRequest(Last(frames).args[1])
       IN /\ inflight' = inflight \cup {req}
          /\ invocations' = [invocations EXCEPT ![Cur].calls = Append(@, req.messages)]
    /\ pc' = "awaiting"
    /\ UNCHANGED <<queue, service, cell, frames, stage, locals, retval, exc, runs, nextId, clock,
                   inputs, responses, nb, feedbacks, shared>>

(* The API answers with the next fixed completion; call_openai returns its *)
(* text.                                                                    *)
OpenaiReturns ==
    /\ pc = "awaiting"
    /\ LET text == responses[Len(invocations[Cur].completions) + 1]
       IN /\ retval' = <<CallOpenaiResult(ChatResponse(text))>>
          /\ invocations' = [invocations EXCEPT ![Cur].completions = Append(@, text)]
    /\ inflight' = {}
    /\ pc' = "return"
    /\ UNCHANGED <<queue, service, cell, frames, stage, locals, exc, runs, nextId, clock, inputs,
                   responses, nb, feedbacks, shared>>

(* The API call fails: the error is raised in call_openai. *)
OpenaiFails ==
    /\ pc = "awaiting"
    /\ \E e \in ApiErrors :
          /\ exc' = e
          /\ invocations' = [invocations EXCEPT ![Cur].raised = e]
    /\ inflight' = {}
    /\ pc' = "raising"
    /\ UNCHANGED <<queue, service, cell, frames, stage, locals, retval, runs, nextId, clock,
                   inputs, responses, nb, feedbacks, shared>>

(* call_openai returns: its decorator closes the llm run with the text;    *)
(* the stage's body is "return call_openai(...)", so the stage returns the  *)
(* same value next.                                                         *)
ReturnFromOpenai ==
    /\ pc = "return"
    /\ Last(frames).fn = "call_openai"
    /\ runs' = [runs EXCEPT ![Last(frames).run] = EndRun(@, retval, NoError)]
    /\ queue' = Submit(queue, "patch", runs'[Last(frames).run])
    /\ frames' = Front(frames)
    /\ UNCHANGED <<service, cell, pc, stage, locals, retval, exc, inflight, nextId, clock,
                   inputs, responses, invocations, nb, feedbacks, shared>>

(* The chain's local variable that receives the value of stage k *)
AssignStage(l, k, v) ==
    CASE k = 1 -> [l EXCEPT !.argument = v]
      [] k = 2 -> [l EXCEPT !.criticism = v]
      [] k = 3 -> [l EXCEPT !.refined_argument = v]

(* A stage returns: its decorator closes its run, and the chain's body     *)
(* takes the value.                                                         *)
ReturnFromStage ==
    /\ pc = "return"
    /\ Last(frames).fn \in StageFns
    /\ runs' = [runs EXCEPT ![Last(frames).run] = EndRun(@, retval, NoError)]
    /\ queue' = Submit(queue, "patch", runs'[Last(frames).run])
    /\ frames' = Front(frames)
    /\ locals' = AssignStage(locals, stage, retval[1])
    /\ stage' = stage + 1
    /\ pc' = "body"
    /\ UNCHANGED <<service, cell, retval, exc, inflight, nextId, clock, inputs, responses,
                   invocations, nb, feedbacks, shared>>

(* A slip in argument_chain2: the first argument returned, not the refined *)
ChainResult_Chain2Unrefined(fn, refined_argument, run_tree) ==
    IF fn = "argument_chain2"
    THEN <<locals.argument, run_tree.id>>
    ELSE refined_argument

(* The value a chain returns: the refined argument, which argument_chain2  *)
(* pairs with the id of the run tree injected into it.                      *)
ChainResult(fn, refined_argument, run_tree) ==
    IF fn = "argument_chain2"
    THEN <<refined_argument, run_tree.id>>
    ELSE refined_argument

(* argument_chain*: the return statement, after the third stage. *)
ChainReturns ==
    /\ pc = "body"
    /\ Last(frames).fn \in Chains
    /\ stage = 4
    /\ retval' = << ChainResult(Last(frames).fn, locals.refined_argument,
                                InjectedRunTree(frames)) >>
    /\ pc' = "return"
    /\ UNCHANGED <<queue, service, cell, frames, stage, locals, exc, inflight, runs, nextId, clock,
                   inputs, responses, invocations, nb, feedbacks, shared>>

(* The cell's assignment of the chain's value: "result = ..." or, for      *)
(* argument_chain2, "result, run_id = ...".                                 *)
CellAssign(n, fn, v) ==
    IF fn = "argument_chain2"
    THEN [n EXCEPT !.result = <<v[1]>>, !.run_id = v[2]]
    ELSE [n EXCEPT !.result = <<v>>]

(* The chain returns to the cell: its decorator closes the root run and    *)
(* the cell assigns the value.                                              *)
ReturnFromChain ==
    /\ pc = "return"
    /\ Last(frames).fn \in Chains
    /\ runs' = [runs EXCEPT ![Last(frames).run] = EndRun(@, retval, NoError)]
    /\ queue' = Submit(queue, "patch", runs'[Last(frames).run])
    /\ frames' = Front(frames)
    /\ nb' = CellAssign(nb, Last(frames).fn, retval[1])
    /\ invocations' = [invocations EXCEPT ![Cur].status = "returned",
                                          ![Cur].result = retval]
    /\ cell' = cell + 1
    /\ pc' = "next_cell"
    /\ UNCHANGED <<service, stage, locals, retval, exc, inflight, nextId, clock, inputs,
                   responses, feedbacks, shared>>

(* A slip: a stage wraps the exception that passes through it *)
Unwind_Translating ==
    /\ pc = "raising"
    /\ frames # <<>>
    /\ runs' = IF Last(frames).run = None
               THEN runs
               ELSE [runs EXCEPT ![Last(frames).run] = EndRun(@, <<>>, exc)]
    /\ queue' = IF Last(frames).run = None
                THEN queue
                ELSE Submit(queue, "patch", runs'[Last(frames).run])
    /\ frames' = Front(frames)
    /\ exc' = IF Last(frames).fn \in StageFns THEN "RuntimeError" ELSE exc
    /\ UNCHANGED <<service, cell, pc, stage, locals, retval, inflight, nextId, clock,
                   inputs, responses, invocations, nb, feedbacks, shared>>

(* An exception leaves the innermost frame: no function of the notebook    *)
(* has a handler, so the frame is dropped, its decorator closes its run    *)
(* (when it has opened one) with the error, and the same exception goes on *)
(* to the caller.                                                           *)
Unwind ==
    /\ pc = "raising"
    /\ frames # <<>>
    /\ runs' = IF Last(frames).run = None
               THEN runs
               ELSE [runs EXCEPT ![Last(frames).run] = EndRun(@, <<>>, exc)]
    /\ queue' = IF Last(frames).run = None
                THEN queue
                ELSE Submit(queue, "patch", runs'[Last(frames).run])
    /\ frames' = Front(frames)
    /\ UNCHANGED <<service, cell, pc, stage, locals, retval, exc, inflight, nextId, clock,
                   inputs, responses, invocations, nb, feedbacks, shared>>

(* The exception reaches the cell, which does not catch it either: the     *)
(* cell fails with it and the notebook stops.                               *)
CellFails ==
    /\ pc = "raising"
    /\ frames = <<>>
    /\ nb' = [nb EXCEPT !.error = exc]
    /\ invocations' = [invocations EXCEPT ![Cur].status = "raised",
                                          ![Cur].error = exc]
    /\ pc' = "crashed"
    /\ UNCHANGED <<queue, service, cell, frames, stage, locals, retval, exc, inflight, runs, nextId,
                   clock, inputs, responses, feedbacks, shared>>

(* client.create_feedback(<id variable>, "user_feedback", score=...) *)
CreateFeedback ==
    /\ pc = "next_cell"
    /\ cell <= Len(Cells)
    /\ Cells[cell].kind = "create_feedback"
    /\ feedbacks' = feedbacks \cup
          {[run_id |-> nb[Cells[cell].arg], key |-> "user_feedback",
            score |-> Cells[cell].score]}
    /\ cell' = cell + 1
    /\ UNCHANGED <<queue, service, pc, frames, stage, locals, retval, exc, inflight, runs, nextId,
                   clock, inputs, responses, invocations, nb, shared>>

(* client.share_run(run_id) *)
ShareRun ==
    /\ pc = "next_cell"
    /\ cell <= Len(Cells)
    /\ Cells[cell].kind = "share_run"
    /\ shared' = shared \cup {nb[Cells[cell].arg]}
    /\ cell' = cell + 1
    /\ UNCHANGED <<queue, service, pc, frames, stage, locals, retval, exc, inflight, runs, nextId,
                   clock, inputs, responses, invocations, nb, feedbacks>>

Next ==
    \/ CallChain
    \/ SetupRun
    \/ SetupRunFails
    \/ ChainCallsStage
    \/ StageCallsOpenai
    \/ OpenaiCreate
    \/ OpenaiReturns
    \/ OpenaiFails
    \/ ReturnFromOpenai
    \/ ReturnFromStage
    \/ ChainReturns
    \/ ReturnFromChain
    \/ Unwind
    \/ CellFails
    \/ CreateFeedback
    \/ ShareRun

Spec == Init /\ [][Next]_vars

----------------------------------------------------------------------------
(* The upload thread of the tracing client *)

(* The service's runs after one upload: a "post" adds the run, a "patch"   *)
(* replaces the run of the same id by its closed state.                     *)
ApplyUpload(svc, u) ==
    IF u.op = "post"
    THEN Append(svc, u.run)
    ELSE [k \in DOMAIN svc |-> IF svc[k].id = u.run.id THEN u.run ELSE svc[k]]

(* The background thread sends the oldest pending creation or patch; it    *)
(* runs whenever it is scheduled, however late.                             *)
Upload ==
    /\ queue # <<>>
    /\ service' = ApplyUpload(service, Head(queue))
    /\ queue' = Tail(queue)
    /\ UNCHANGED <<cell, pc, frames, stage, locals, retval, exc, inflight, runs,
                   nextId, clock, inputs, responses, invocations, nb, feedbacks,
                   shared>>

(* The cell that calls argument_chain, run while the upload thread is      *)
(* scheduled at any moment: the steps of the application thread on that    *)
(* call, interleaved with the uploads.                                      *)
NextUpload ==
    \/ cell = 1 /\ CallChain
    \/ SetupRun
    \/ SetupRunFails
    \/ ChainCallsStage
    \/ StageCallsOpenai
    \/ OpenaiCreate
    \/ OpenaiReturns
    \/ OpenaiFails
    \/ ReturnFromOpenai
    \/ ReturnFromStage
    \/ ChainReturns
    \/ ReturnFromChain
    \/ Unwind
    \/ CellFails
    \/ Upload

SpecUpload == Init /\ [][NextUpload]_vars

----------------------------------------------------------------------------
(* Reading the recorded runs *)

RunIdx == DOMAIN runs

ChildSet(i) == {j \in RunIdx : runs[j].parent_run_id = runs[i].id}

(* The children of run i in the order they were created *)
Children(i) ==
    LET S == ChildSet(i)
    IN CHOOSE s \in [1..Cardinality(S) -> S] :
          \A a, b \in 1..Cardinality(S) : a < b => s[a] < s[b]

RECURSIVE RootOf(_)
RootOf(j) ==
    IF runs[j].parent_run_id = None \/ ~(\E p \in RunIdx : runs[p].id = runs[j].parent_run_id)
    THEN j
    ELSE RootOf(CHOOSE p \in RunIdx : runs[p].id = runs[j].parent_run_id)

Trace(i) == {j \in RunIdx : RootOf(j) = i}

InvIdx == DOMAIN invocations

Returned(i) == i \in InvIdx /\ invocations[i].status = "returned"

(* The string an invocation returned: argument_chain2 returns it first in  *)
(* a pair.                                                                  *)
ResultString(i) ==
    IF invocations[i].fn = "argument_chain2"
    THEN invocations[i].result[1][1]
    ELSE invocations[i].result[1]

----------------------------------------------------------------------------
(* C1: the completions pass through unchanged. Whenever call_openai is     *)
(* returning, it returns exactly the text of the completion the API has    *)
(* just given; whenever argument_generator, critic or refiner is returning,*)
(* it returns exactly what its call_openai call returned; and              *)
(* argument_chain returns, and its cell receives, exactly the third        *)
(* completion, the one refiner returned.                                    *)
C1_PassThrough ==
    /\ (pc = "return" /\ Last(frames).fn \in StageFns \cup {"call_openai"})
          => /\ invocations[Cur].completions # <<>>
             /\ retval = <<Last(invocations[Cur].completions)>>
             /\ Last(invocations[Cur].completions) = responses[stage]
    /\ (pc = "return" /\ Last(frames).fn = "argument_chain")
          => /\ Len(invocations[Cur].completions) = 3
             /\ retval = <<responses[3]>>
             /\ locals = [argument |-> responses[1], criticism |-> responses[2],
                          refined_argument |-> responses[3]]
    /\ \A i \in InvIdx :
          (Returned(i) /\ invocations[i].fn = "argument_chain")
             => /\ invocations[i].result = <<responses[3]>>
                /\ invocations[i].completions = <<responses[1], responses[2], responses[3]>>
    /\ (cell = 2 /\ pc = "next_cell") => nb.result = <<responses[3]>>

(* argument_chain has returned the third completion, which differs from    *)
(* the first two.                                                           *)
C1_Witness ==
    /\ Returned(1)
    /\ invocations[1].fn = "argument_chain"
    /\ nb.result = <<responses[3]>>
    /\ responses[3] # responses[1]
    /\ responses[3] # responses[2]

----------------------------------------------------------------------------
(* C2: the shape of the run tree. Every chain call that has returned has   *)
(* produced exactly one trace: its root is a "chain" run named after the   *)
(* chain and has no parent; the root's children are exactly three "chain"  *)
(* runs, argument_generator, critic, refiner, in that order; each of them  *)
(* has exactly one child, an "llm" run call_openai, which has no children; *)
(* the trace holds these seven runs and no other; every run that is not a  *)
(* root has exactly one parent; and between cells every recorded run lies  *)
(* in the trace of one of the chain calls made, one trace per call.         *)
TreeShape(i) ==
    LET r == invocations[i].root
        kids == Children(r)
    IN /\ r # None
       /\ runs[r].run_type = "chain"
       /\ runs[r].name = Traceable(invocations[i].fn).name
       /\ runs[r].parent_run_id = None
       /\ Cardinality(ChildSet(r)) = 3
       /\ \A k \in 1..3 :
             /\ runs[kids[k]].run_type = "chain"
             /\ runs[kids[k]].name = Stages[k]
             /\ Cardinality(ChildSet(kids[k])) = 1
             /\ \A l \in ChildSet(kids[k]) :
                   /\ runs[l].run_type = "llm"
                   /\ runs[l].name = "call_openai"
                   /\ ChildSet(l) = {}
       /\ Cardinality(Trace(r)) = 7

C2_RunTreeShape ==
    /\ \A i \in InvIdx : Returned(i) => TreeShape(i)
    /\ \A j \in RunIdx :
          runs[j].parent_run_id # None
             => Cardinality({p \in RunIdx : runs[p].id = runs[j].parent_run_id}) = 1
    /\ pc = "next_cell"
          => /\ \A j \in RunIdx : \E i \in InvIdx : RootOf(j) = invocations[i].root
             /\ Cardinality({j \in RunIdx : runs[j].parent_run_id = None})
                   = Len(invocations)
             /\ \A i1, i2 \in InvIdx :
                   i1 # i2 => invocations[i1].root # invocations[i2].root

(* argument_chain has returned and its trace of seven runs is recorded. *)
C2_Witness ==
    /\ Returned(1)
    /\ invocations[1].fn = "argument_chain"
    /\ TreeShape(1)
    /\ Len(runs) = 7

----------------------------------------------------------------------------
(* The runs an id refers to *)
RunsWithId(id) == {j \in RunIdx : runs[j].id = id}

(* The invocation a cell of the notebook made, by the chain it calls *)
InvOf(fn) == {i \in InvIdx : invocations[i].fn = fn}

(* C3: the run id argument_chain2 returns. In every state from the return  *)
(* of argument_chain2 on, the id it returned second, which the cell keeps  *)
(* in run_id, is the id of the root run opened for that very call, that    *)
(* run is completed, and no other run has the id; the feedback created     *)
(* with run_id and the link shared with run_id carry that id, so they      *)
(* refer to that root run alone.                                            *)
C3_StableRunId ==
    \A i \in InvOf("argument_chain2") :
       Returned(i) =>
          LET id == invocations[i].result[1][2]
              r == invocations[i].root
          IN /\ r # None
             /\ runs[r].id = id
             /\ runs[r].parent_run_id = None
             /\ runs[r].ended = 1
             /\ RunsWithId(id) = {r}
             /\ nb.run_id = id
             /\ cell > 3 => \E f \in feedbacks :
                               /\ f.score = "0.5"
                               /\ f.run_id = id
                               /\ RunsWithId(f.run_id) = {r}
             /\ cell > 4 => /\ shared = {id}
                            /\ \A u \in shared : RunsWithId(u) = {r}

(* Feedback and a public link have been created with the id that           *)
(* argument_chain2 returned, after later runs were recorded.                *)
C3_Witness ==
    /\ cell > 5
    /\ \E i \in InvOf("argument_chain2") :
          /\ Returned(i)
          /\ nb.run_id = runs[invocations[i].root].id
          /\ \E f \in feedbacks : f.run_id = nb.run_id
          /\ nb.run_id \in shared
          /\ Len(runs) > 14

----------------------------------------------------------------------------
(* C4: the run id the caller chooses. As soon as the root run of the       *)
(* argument_chain_3 call made with langsmith_extra run_id = requested_uuid *)
(* exists, its id is requested_uuid and it is the only run with that id    *)
(* (no run has it as an id the decorator drew); the feedback created       *)
(* afterwards with requested_uuid refers to that root run alone.            *)
C4_RequestedRunId ==
    \A i \in InvOf("argument_chain_3") :
       LET r == invocations[i].root
       IN /\ nb.requested_uuid # None
          /\ r # None =>
                /\ runs[r].id = nb.requested_uuid
                /\ runs[r].parent_run_id = None
                /\ RunsWithId(nb.requested_uuid) = {r}
          /\ cell > 6 =>
                /\ Returned(i)
                /\ \E f \in feedbacks :
                      /\ f.score = "1"
                      /\ f.run_id = nb.requested_uuid
                      /\ RunsWithId(f.run_id) = {r}

(* The last cell has attached feedback to the root run of argument_chain_3 *)
C4_Witness ==
    /\ cell > 6
    /\ \E i \in InvOf("argument_chain_3") :
          /\ Returned(i)
          /\ runs[invocations[i].root].id = nb.requested_uuid
          /\ \E f \in feedbacks : f.score = "1" /\ f.run_id = nb.requested_uuid

----------------------------------------------------------------------------
(* C9: tags and metadata of decoration time and call time are both kept.   *)
(* The root run of the argument_chain_3 call made with langsmith_extra     *)
(* tags ["another-tag"] and metadata {"another-key": 1} is named           *)
(* "My Argument Chain", is tagged "tutorial" and "another-tag", and its    *)
(* metadata has githash = "e38f04c83" and another-key = 1.                  *)
C9_TagsAndMetadataKept ==
    \A i \in InvOf("argument_chain_3") :
       LET r == invocations[i].root
       IN r # None =>
             /\ runs[r].name = "My Argument Chain"
             /\ {"tutorial", "another-tag"} \subseteq runs[r].tags
             /\ {"githash", "another-key"} \subseteq DOMAIN runs[r].metadata
             /\ runs[r].metadata["githash"] = "e38f04c83"
             /\ runs[r].metadata["another-key"] = 1

(* The root run of argument_chain_3 exists, with the call's tag. *)
C9_Witness ==
    \E i \in InvOf("argument_chain_3") :
       /\ invocations[i].root # None
       /\ "another-tag" \in runs[invocations[i].root].tags
       /\ "another-key" \in DOMAIN runs[invocations[i].root].metadata

----------------------------------------------------------------------------
(* C5: errors propagate unchanged and fail fast. While an exception raised *)
(* by the chat-completion call or by the tracing client is on its way out  *)
(* of a chain call, it is the exception that was raised; when it has       *)
(* reached the cell, the cell fails with that same exception, the chain    *)
(* has returned no result, every chat-completion call was sent once (the   *)
(* failing one is not sent again), and no stage after the failing one was  *)
(* entered or sent a call.                                                  *)
FailedFast(i) ==
    LET inv == invocations[i]
        sent == Len(inv.calls)
        answered == Len(inv.completions)
    IN /\ answered = stage - 1
       /\ sent = answered + (IF inv.raised \in ApiErrors THEN 1 ELSE 0)
       /\ inv.root # None => Cardinality(ChildSet(inv.root)) <= stage
       /\ inv.result = <<>>
       /\ nb.result = IF i = 1 THEN <<>> ELSE <<ResultString(i - 1)>>
       /\ inflight = {}

C5_WitnessTracing ==
    /\ pc = "crashed"
    /\ Cur = 1
    /\ stage = 3
    /\ invocations[1].raised \in TracingErrors

----------------------------------------------------------------------------
(* C6: the calls are sequential and synchronous. At most one               *)
(* chat-completion request is in flight, and only while call_openai waits  *)
(* for it; a request is sent only when every earlier one has been          *)
(* answered; the k-th request of a chain call is the one of its k-th       *)
(* stage, argument_generator, critic, refiner; and a chain call that has   *)
(* returned has sent exactly three requests and got three answers.          *)
ExpectedCall(i, k) ==
    LET inv == invocations[i]
    IN CASE k = 1 -> ArgumentGeneratorMessages(inputs.query,
                        inputs.additional_description, inv.times[1])
         [] k = 2 -> CriticMessages(inv.completions[1])
         [] k = 3 -> RefinerMessages(inputs.query, inputs.additional_description,
                        inv.completions[1], inv.completions[2], inv.times[2])

C6_Sequential ==
    /\ Cardinality(inflight) <= 1
    /\ (inflight # {}) <=> (pc = "awaiting")
    /\ \A i \in InvIdx :
          LET inv == invocations[i]
          IN /\ Len(inv.calls) <= 3
             /\ Len(inv.calls) - Len(inv.completions) \in {0, 1}
             /\ (i = Cur /\ pc = "awaiting")
                   => /\ Len(inv.calls) = Len(inv.completions) + 1
                      /\ inflight = {ChatRequest(Last(inv.calls))}
                      /\ Len(inv.calls) = stage
             /\ \A k \in 1..Len(inv.calls) : inv.calls[k] = ExpectedCall(i, k)
             /\ Returned(i) => Len(inv.calls) = 3 /\ Len(inv.completions) = 3
    /\ (pc = "return" /\ Last(frames).fn \in Chains)
          => Len(invocations[Cur].completions) = 3 /\ inflight = {}

(* argument_chain has returned after its three calls, and the third request *)
(* of a later chain call is in flight.                                       *)
C6_Witness ==
    /\ Returned(1)
    /\ Len(invocations[1].calls) = 3
    /\ pc = "awaiting"
    /\ stage = 3
    /\ Cardinality(inflight) = 1

----------------------------------------------------------------------------
(* C7: every run is closed with its outcome. A run is closed at most once; *)
(* an open run has no outcome and belongs to a call still in progress; a   *)
(* closed run has exactly one outcome, the value its function returned or  *)
(* the error it raised. When a chain call fails, the error raised is the   *)
(* one recorded on every run it passed through, up to the root: the llm    *)
(* run of the failing request when the chat-completion call failed, and    *)
(* every enclosing run. Once the root call has returned or raised, no run  *)
(* is left without an outcome.                                              *)
OpenRuns == {frames[k].run : k \in DOMAIN frames} \ {None}

Failed(j) == runs[j].error # NoError

C7_RunsClosedWithOutcome ==
    /\ \A j \in RunIdx :
          /\ runs[j].ended \in {0, 1}
          /\ runs[j].ended = 0 <=> j \in OpenRuns
          /\ runs[j].ended = 0 => runs[j].outputs = <<>> /\ ~Failed(j)
          /\ runs[j].ended = 1 => (runs[j].outputs # <<>>) # Failed(j)
          /\ (runs[j].ended = 1 /\ runs[j].run_type = "llm" /\ ~Failed(j))
                => \E t \in Completions : runs[j].outputs = <<t>>
          /\ Failed(j) =>
                /\ runs[j].error = invocations[Cur].raised
                /\ RootOf(j) = invocations[Cur].root
                /\ ChildSet(j) # {} => Failed(Last(Children(j)))
                                          \/ invocations[Cur].raised \in TracingErrors
                /\ \A c \in ChildSet(j) : Failed(c) => c = Last(Children(j))
    /\ \A i \in InvIdx :
          Returned(i) => runs[invocations[i].root].outputs = invocations[i].result
    /\ pc \in {"next_cell", "crashed"} => \A j \in RunIdx : runs[j].ended = 1
    /\ pc = "crashed" =>
          LET inv == invocations[Cur]
          IN /\ inv.root # None => Failed(inv.root)
             /\ \A j \in Trace(inv.root) \cap RunIdx :
                   (j # inv.root /\ Failed(j))
                      => \E p \in RunIdx : j \in ChildSet(p) /\ Failed(p)
             /\ inv.raised \in ApiErrors =>
                   \E j \in RunIdx :
                      /\ runs[j].run_type = "llm"
                      /\ Failed(j)
                      /\ runs[j].inputs = <<Last(inv.calls)>>
                      /\ {l \in RunIdx : runs[l].run_type = "llm" /\ Failed(l)} = {j}
                      /\ \E p \in ChildSet(inv.root) : j \in ChildSet(p) /\ Failed(p)

(* The chat-completion call of refiner has failed and the cell has failed: *)
(* the llm run, the refiner run and the root carry the error, the four     *)
(* runs of the earlier stages their responses.                              *)
C7_Witness ==
    /\ pc = "crashed"
    /\ Cur = 1
    /\ invocations[1].raised \in ApiErrors
    /\ Len(runs) = 7
    /\ Cardinality({j \in RunIdx : Failed(j)}) = 3
    /\ Cardinality({j \in RunIdx : runs[j].outputs # <<>>}) = 4

----------------------------------------------------------------------------
(* C10: the roles are fixed. Every message list sent to the                *)
(* chat-completion call has the number of messages and the roles its stage *)
(* fixes (argument_generator: system, user; critic: system, system;        *)
(* refiner: system, user, assistant, user, system), whatever the query,    *)
(* the description and the completions fed back are; so every role is one  *)
(* of system, user, assistant.                                              *)
RolesOf(msgs) == [k \in DOMAIN msgs |-> msgs[k].role]

StageRoles ==
    << <<"system", "user">>,
       <<"system", "system">>,
       <<"system", "user", "assistant", "user", "system">> >>

WellFormed(msgs, k) ==
    /\ \A m \in DOMAIN msgs : msgs[m].role \in Roles
    /\ RolesOf(msgs) = StageRoles[k]

C10_RolesFixed ==
    /\ \A i \in InvIdx :
          \A k \in DOMAIN invocations[i].calls :
             WellFormed(invocations[i].calls[k], k)
    /\ \A r \in inflight : \A m \in DOMAIN r.messages : r.messages[m].role \in Roles
    /\ \A f \in DOMAIN frames :
          frames[f].fn = "call_openai" => WellFormed(frames[f].args[1], stage)

(* refiner has sent its five messages, built from a query, a description   *)
(* and completions that are themselves role labels.                         *)
C10_Witness ==
    /\ pc = "awaiting"
    /\ stage = 3
    /\ Len(Last(invocations[Cur].calls)) = 5
    /\ inputs.query \in Roles
    /\ inputs.additional_description \in Roles
    /\ \A k \in 1..3 : responses[k] \in Roles

----------------------------------------------------------------------------
(* C8: argument_chain2 against argument_chain. The two calls get the same  *)
(* inputs and the same completions. As first stated: argument_chain2 sends *)
(* the same message lists in the same order and returns, first, the string *)
(* argument_chain returns.                                                  *)
SameResult(i, j) == ResultString(j) = ResultString(i)

C8_SameCallsAsStated ==
    \A i \in InvOf("argument_chain") : \A j \in InvOf("argument_chain2") :
       (Returned(i) /\ Returned(j) /\ invocations[i].completions = invocations[j].completions)
          => /\ invocations[j].calls = invocations[i].calls
             /\ SameResult(i, j)

(* C8, amended: the system prompts of argument_generator and refiner hold  *)
(* the time datetime.now() gives, so the message lists are the same when   *)
(* the two calls also read the same times; whatever the times, the two     *)
(* calls send message lists that agree in number, order, roles and every   *)
(* part of every content but that time, and the first element              *)
(* argument_chain2 returns is the string argument_chain returns.            *)
SameButTime(a, b) ==
    /\ Len(a) = Len(b)
    /\ \A k \in DOMAIN a :
          /\ Len(a[k]) = Len(b[k])
          /\ \A m \in DOMAIN a[k] :
                /\ a[k][m].role = b[k][m].role
                /\ Len(a[k][m].content) = Len(b[k][m].content)
                /\ \A q \in DOMAIN a[k][m].content :
                      (Len(a[k][m].content) # 4 \/ q # 4)
                         => a[k][m].content[q] = b[k][m].content[q]

C8_SameCallsGivenSameTimes ==
    \A i \in InvOf("argument_chain") : \A j \in InvOf("argument_chain2") :
       (Returned(i) /\ Returned(j) /\ invocations[i].completions = invocations[j].completions)
          => /\ invocations[i].times = invocations[j].times
                   => invocations[j].calls = invocations[i].calls
             /\ SameButTime(invocations[i].calls, invocations[j].calls)
             /\ SameResult(i, j)

(* Both calls have returned, having read the same times. *)
C8_Witness ==
    \E i \in InvOf("argument_chain") : \E j \in InvOf("argument_chain2") :
       /\ Returned(i) /\ Returned(j)
       /\ invocations[i].times = invocations[j].times
       /\ invocations[j].calls = invocations[i].calls
       /\ ResultString(j) = ResultString(i)
       /\ ResultString(j) # invocations[j].completions[1]

----------------------------------------------------------------------------
(* C11: tracing does not block the application. Under SpecUpload the       *)
(* upload thread sends the creations and patches of the runs at any moment *)
(* or not at all. In every state of every interleaving: when               *)
(* argument_chain is inside one of its steps, the application thread can   *)
(* take its next step, whatever is still waiting to be uploaded; when      *)
(* call_openai waits, it waits for the chat-completion API alone;          *)
(* argument_chain, once returned, has sent its three requests and returned *)
(* the third completion, the same string in every interleaving; and the    *)
(* service holds, in creation order, a prefix of the runs created, each as *)
(* created or as closed.                                                    *)
AppProceeds ==
    \/ SetupRun
    \/ ChainCallsStage
    \/ StageCallsOpenai
    \/ OpenaiCreate
    \/ ReturnFromOpenai
    \/ ReturnFromStage
    \/ ChainReturns
    \/ ReturnFromChain
    \/ Unwind
    \/ CellFails

Pending(op) == {k \in DOMAIN queue : queue[k].op = op}

C11_TracingDoesNotBlock ==
    /\ pc \in {"enter", "body", "return", "raising"} => ENABLED AppProceeds
    /\ pc = "awaiting" => ENABLED OpenaiReturns
    /\ Returned(1) =>
          /\ invocations[1].fn = "argument_chain"
          /\ invocations[1].result = <<responses[3]>>
          /\ nb.result = <<responses[3]>>
          /\ \A k \in 1..3 : invocations[1].calls[k] = ExpectedCall(1, k)
    /\ Len(service) + Cardinality(Pending("post")) = Len(runs)
    /\ \A k \in DOMAIN service :
          \/ service[k] = runs[k]
          \/ /\ runs[k].ended = 1
             /\ service[k] = [runs[k] EXCEPT !.outputs = <<>>, !.error = NoError,
                                             !.ended = 0]
             /\ \E q \in Pending("patch") : queue[q].run = runs[k]

(* argument_chain has returned while nothing has been uploaded yet: the    *)
(* seven creations and seven patches are all pending.                       *)
C11_Witness ==
    /\ Returned(1)
    /\ nb.result = <<responses[3]>>
    /\ service = <<>>
    /\ Len(queue) = 14

(* argument_chain is in its third stage and every upload so far is done. *)
C11_WitnessUploaded ==
    /\ pc = "awaiting"
    /\ stage = 3
    /\ queue = <<>>
    /\ Len(service) = 7

====
